---- MODULE Spec2Model ----
(***************************************************************************)
(* Signaling / matchmaking server of ogemle (server/src/index.ts).         *)
(*                                                                         *)
(* The server is single threaded: every socket callback and the heartbeat  *)
(* timer callback runs to completion, so each handler is one action.       *)
(* Client objects are captured by the socket callbacks, so a client object *)
(* outlives its entry in the `clients` map; the per-client fields below    *)
(* are therefore indexed by every id ever created, and `clients` is the    *)
(* key set of the map.  client.connectedAt is written once and never read  *)
(* by the server, so it is not part of the state.                          *)
(***************************************************************************)
EXTENDS Integers, Sequences, FiniteSets, TLC

\* ----------------------------------------------------------------- bounds
\* Number of connections ever accepted.
MaxClients == 3
\* Number of clock advances (Date.now() is read, never set, by the server).
MaxTicks == 1
\* Number of pairings ever formed.
MaxPairs == 2

\* ------------------------------------------------------------ vocabulary
\* `undefined` for the optional fields partnerId / pairedAt (both falsy).
Undefined == 0
Ids == 1..MaxClients
\* Date.now() in milliseconds: the clock starts at StartMs and advances by StepMs.
StartMs == 1000
StepMs == 1500
\* WebSocket.readyState values that a server side socket takes.
OPEN == "OPEN"
CLOSING == "CLOSING"
CLOSED == "CLOSED"
\* readyState of a socket that has not been accepted yet.
NoSocket == "NONE"

\* JSON texts of the `data` member of a signal payload, as put on the wire
\* by a peer: a string, and a number literal beyond the double range.
WireData == {"\"X\"", "1e400"}
\* JSON.parse of a `data` text: the JavaScript value.
JSONParseData(t) ==
  IF t = "1e400" THEN "Infinity"
  ELSE IF t = "\"X\"" THEN "X"
  ELSE t
\* JSON.stringify of a JavaScript value of `data`: non finite numbers become null.
JSONStringifyData(v) ==
  IF v = "Infinity" THEN "null"
  ELSE IF v = "X" THEN "\"X\""
  ELSE v

\* A signal payload on the wire; `present` is FALSE when the message has no
\* payload member at all.
WirePayloads ==
  { [present |-> TRUE, kind |-> "offer", data |-> d] : d \in WireData }
    \cup { [present |-> FALSE, kind |-> "", data |-> ""] }

\* Raw inbound texts: not JSON, the JSON value null, and JSON objects with a
\* `type` member.
RawMessages ==
  { [text |-> "garbage", type |-> "", payload |-> [present |-> FALSE, kind |-> "", data |-> ""]],
    [text |-> "null", type |-> "", payload |-> [present |-> FALSE, kind |-> "", data |-> ""]] }
    \cup { [text |-> "object", type |-> t, payload |-> [present |-> FALSE, kind |-> "", data |-> ""]]
             : t \in {"ready", "leave", "bogus"} }
    \cup { [text |-> "object", type |-> "signal", payload |-> p] : p \in WirePayloads }

\* JSON.parse(raw): "SyntaxError" when it throws, else the parsed value
\* (payload data parsed into JavaScript values).
JSONParse(raw) ==
  IF raw.text = "garbage" THEN [ok |-> FALSE, falsy |-> FALSE, type |-> "", payload |-> raw.payload]
  ELSE IF raw.text = "null" THEN [ok |-> TRUE, falsy |-> TRUE, type |-> "", payload |-> raw.payload]
  ELSE [ok |-> TRUE, falsy |-> FALSE, type |-> raw.type,
        payload |-> [raw.payload EXCEPT !.data = JSONParseData(raw.payload.data)]]

\* JSON.stringify of a payload value: the text the partner receives.
JSONStringifyPayload(p) == [p EXCEPT !.data = JSONStringifyData(p.data)]

\* Outgoing messages (type OutgoingMessage), after JSON.stringify.
NoPayload == [present |-> FALSE, kind |-> "", data |-> ""]
StatusMsg(m) == [type |-> "status", message |-> m, partnerId |-> Undefined, role |-> "", payload |-> NoPayload]
ErrorMsg(m) == [type |-> "error", message |-> m, partnerId |-> Undefined, role |-> "", payload |-> NoPayload]
MatchMsg(p, r) == [type |-> "match", message |-> "", partnerId |-> p, role |-> r, payload |-> NoPayload]
SignalMsg(p) == [type |-> "signal", message |-> "", partnerId |-> Undefined, role |-> "", payload |-> JSONStringifyPayload(p)]
PartnerLeftMsg == [type |-> "partner_left", message |-> "", partnerId |-> Undefined, role |-> "", payload |-> NoPayload]

\* ----------------------------------------------------------------- state
VARIABLES
  clients,        \* key set of the `clients` map
  partnerId,      \* client.partnerId, per client object
  wantsChat,      \* client.wantsChat
  isAlive,        \* client.isAlive
  pairedAt,       \* client.pairedAt
  readyState,     \* client.socket.readyState
  waitingQueue,   \* the waitingQueue array
  stats,          \* the stats object
  now,            \* Date.now()
  pairsFormed     \* number of connectPair calls so far

vars == <<clients, partnerId, wantsChat, isAlive, pairedAt, readyState,
          waitingQueue, stats, now, pairsFormed>>

\* The mutable server state as one value, threaded through the handlers.
\* `out` collects what a handler writes to sockets: <<[to, msg]>>.
Cur ==
  [clients |-> clients, partnerId |-> partnerId, wantsChat |-> wantsChat,
   isAlive |-> isAlive, pairedAt |-> pairedAt, readyState |-> readyState,
   waitingQueue |-> waitingQueue, stats |-> stats, out |-> <<>>,
   pairsFormed |-> pairsFormed]

\* A client object that no callback can reach any more: it is not in the map
\* and its socket delivers no further message or pong.
Unreachable(s, c) == c \notin s.clients /\ s.readyState[c] # OPEN

\* The state a handler leaves behind; the fields of unreachable client
\* objects are dropped (garbage).
Commit(s) ==
  /\ clients' = s.clients
  /\ partnerId' = [c \in Ids |-> IF Unreachable(s, c) THEN Undefined ELSE s.partnerId[c]]
  /\ wantsChat' = [c \in Ids |-> IF Unreachable(s, c) THEN FALSE ELSE s.wantsChat[c]]
  /\ isAlive' = [c \in Ids |-> IF Unreachable(s, c) THEN FALSE ELSE s.isAlive[c]]
  /\ pairedAt' = [c \in Ids |-> IF Unreachable(s, c) THEN Undefined ELSE s.pairedAt[c]]
  /\ readyState' = s.readyState
  /\ waitingQueue' = s.waitingQueue
  /\ stats' = s.stats
  /\ pairsFormed' = s.pairsFormed

Max(a, b) == IF a >= b THEN a ELSE b

\* ------------------------------------------------------------- functions
\* send(client, message): dropped unless the socket is OPEN.
send(s, c, message) ==
  IF s.readyState[c] # OPEN THEN s
  ELSE [s EXCEPT !.out = Append(@, [to |-> c, msg |-> message])]

\* waitingQueue.indexOf(clientId): 1-based here, 0 when absent.
indexOf(q, c) ==
  IF \E i \in 1..Len(q) : q[i] = c
  THEN CHOOSE i \in 1..Len(q) : q[i] = c /\ \A j \in 1..(i - 1) : q[j] # c
  ELSE 0

\* waitingQueue.splice(index, 1)
splice(q, i) == SubSeq(q, 1, i - 1) \o SubSeq(q, i + 1, Len(q))

\* Mutant of removeFromQueue: the entry is looked up but never spliced out.
removeFromQueueKeeps(s, c) == s

removeFromQueue(s, c) ==
  LET index == indexOf(s.waitingQueue, c) IN
  IF index >= 1 THEN [s EXCEPT !.waitingQueue = splice(@, index)] ELSE s

\* Mutant of handleLeave: the end of a conversation is recorded whether or
\* not the leaving client had a partner.
handleLeaveAlwaysCounts(s, c, t) ==
  LET s1 == removeFromQueue(s, c)
      p == s1.partnerId[c]
      s2 == [s1 EXCEPT
               !.stats.conversationHistory = Append(@, [duration |-> 0, endedAt |-> t]),
               !.stats.activeConversations = Max(0, @ - 1)]
      s3 == IF p # Undefined /\ p \in s2.clients
            THEN LET s31 == [s2 EXCEPT !.partnerId[p] = Undefined, !.pairedAt[p] = Undefined]
                     s32 == send(s31, p, PartnerLeftMsg)
                 IN send(s32, p, StatusMsg("Partner disconnected."))
            ELSE s2
  IN [s3 EXCEPT !.partnerId[c] = Undefined, !.pairedAt[c] = Undefined, !.wantsChat[c] = FALSE]

handleLeave(s, c, t) ==
  LET s1 == removeFromQueue(s, c)
      p == s1.partnerId[c]
      s2 == IF p # Undefined /\ p \in s1.clients
            THEN LET s21 == IF s1.pairedAt[c] # Undefined /\ s1.pairedAt[p] # Undefined
                            THEN [s1 EXCEPT
                                    !.stats.conversationHistory =
                                       Append(@, [duration |-> (t - Max(s1.pairedAt[c], s1.pairedAt[p])) \div 1000,
                                                  endedAt |-> t]),
                                    !.stats.activeConversations = Max(0, @ - 1)]
                            ELSE s1
                     s22 == [s21 EXCEPT !.partnerId[p] = Undefined, !.pairedAt[p] = Undefined]
                     s23 == send(s22, p, PartnerLeftMsg)
                 IN send(s23, p, StatusMsg("Partner disconnected."))
            ELSE s1
  IN [s2 EXCEPT !.partnerId[c] = Undefined, !.pairedAt[c] = Undefined, !.wantsChat[c] = FALSE]

\* Mutant of connectPair: the two roles are exchanged.
connectPairRolesSwapped(s, offerer, answerer, t) ==
  LET s1 == [s EXCEPT !.partnerId[offerer] = answerer, !.partnerId[answerer] = offerer,
                      !.wantsChat[offerer] = FALSE, !.wantsChat[answerer] = FALSE,
                      !.pairedAt[offerer] = t, !.pairedAt[answerer] = t,
                      !.stats.activeConversations = @ + 1, !.pairsFormed = @ + 1]
      s2 == send(s1, offerer, MatchMsg(answerer, "answerer"))
      s3 == send(s2, answerer, MatchMsg(offerer, "offerer"))
      s4 == send(s3, offerer, StatusMsg("Connected! Start your video."))
  IN send(s4, answerer, StatusMsg("Connected! Start your video."))

\* Mutant of connectPair: the match message to the answerer is forgotten.
connectPairOneMatch(s, offerer, answerer, t) ==
  LET s1 == [s EXCEPT !.partnerId[offerer] = answerer, !.partnerId[answerer] = offerer,
                      !.wantsChat[offerer] = FALSE, !.wantsChat[answerer] = FALSE,
                      !.pairedAt[offerer] = t, !.pairedAt[answerer] = t,
                      !.stats.activeConversations = @ + 1, !.pairsFormed = @ + 1]
      s2 == send(s1, offerer, MatchMsg(answerer, "offerer"))
      s3 == send(s2, offerer, StatusMsg("Connected! Start your video."))
  IN send(s3, answerer, StatusMsg("Connected! Start your video."))

\* Mutant of connectPair: pairedAt is stamped on the offerer only.
connectPairStampsOfferer(s, offerer, answerer, t) ==
  LET s1 == [s EXCEPT !.partnerId[offerer] = answerer, !.partnerId[answerer] = offerer,
                      !.wantsChat[offerer] = FALSE, !.wantsChat[answerer] = FALSE,
                      !.pairedAt[offerer] = t,
                      !.stats.activeConversations = @ + 1, !.pairsFormed = @ + 1]
      s2 == send(s1, offerer, MatchMsg(answerer, "offerer"))
      s3 == send(s2, answerer, MatchMsg(offerer, "answerer"))
      s4 == send(s3, offerer, StatusMsg("Connected! Start your video."))
  IN send(s4, answerer, StatusMsg("Connected! Start your video."))

connectPair(s, offerer, answerer, t) ==
  LET s1 == [s EXCEPT !.partnerId[offerer] = answerer]
      s2 == [s1 EXCEPT !.partnerId[answerer] = offerer]
      s3 == [s2 EXCEPT !.wantsChat[offerer] = FALSE]
      s4 == [s3 EXCEPT !.wantsChat[answerer] = FALSE]
      s5 == [s4 EXCEPT !.pairedAt[offerer] = t]
      s6 == [s5 EXCEPT !.pairedAt[answerer] = t]
      s7 == [s6 EXCEPT !.stats.activeConversations = @ + 1, !.pairsFormed = @ + 1]
      s8 == send(s7, offerer, MatchMsg(answerer, "offerer"))
      s9 == send(s8, answerer, MatchMsg(offerer, "answerer"))
      s10 == send(s9, offerer, StatusMsg("Connected! Start your video."))
  IN send(s10, answerer, StatusMsg("Connected! Start your video."))

\* Mutant of validPartner: the test of the socket's readyState is missing.
validPartnerNoOpenCheck(s, p) ==
  p \in s.clients

\* The partner test of the while loop of handleReady.
validPartner(s, p) ==
  p \in s.clients /\ s.readyState[p] = OPEN

\* Mutant of readyLoop: the head of the queue is taken as partner without
\* testing that it is registered and open.
readyLoopNoValidity(s, c, t) ==
  IF Len(s.waitingQueue) > 0
  THEN connectPair([s EXCEPT !.waitingQueue = Tail(@)], c, Head(s.waitingQueue), t)
  ELSE send([s EXCEPT !.waitingQueue = Append(@, c)], c, StatusMsg("Waiting for someone to join..."))

\* Mutant of readyLoop: when no partner is found the requester is told it is
\* waiting but is never pushed on the queue.
readyLoopNoEnqueue(s, c, t) ==
  IF Len(s.waitingQueue) > 0 /\ validPartner(s, Head(s.waitingQueue))
  THEN connectPair([s EXCEPT !.waitingQueue = Tail(@)], c, Head(s.waitingQueue), t)
  ELSE send([s EXCEPT !.waitingQueue = <<>>], c, StatusMsg("Waiting for someone to join..."))

\* Mutant of readyLoop: a stale head entry ends the scan but is left in the
\* queue, and the requester is appended behind it.
readyLoopKeepsStale(s, c, t) ==
  IF Len(s.waitingQueue) > 0 /\ validPartner(s, Head(s.waitingQueue))
  THEN connectPair([s EXCEPT !.waitingQueue = Tail(@)], c, Head(s.waitingQueue), t)
  ELSE send([s EXCEPT !.waitingQueue = Append(@, c)], c, StatusMsg("Waiting for someone to join..."))

\* The while loop of handleReady and what follows it.
RECURSIVE readyLoop(_, _, _)
readyLoop(s, c, t) ==
  IF Len(s.waitingQueue) > 0
  THEN LET p == Head(s.waitingQueue)
           s1 == [s EXCEPT !.waitingQueue = Tail(@)]
       IN IF p = Undefined
          THEN send([s1 EXCEPT !.waitingQueue = Append(@, c)], c, StatusMsg("Waiting for someone to join..."))
          ELSE IF ~validPartner(s1, p)
          THEN readyLoop(s1, c, t)
          ELSE connectPair(s1, c, p, t)
  ELSE send([s EXCEPT !.waitingQueue = Append(@, c)], c, StatusMsg("Waiting for someone to join..."))

\* Mutant of handleReady: the waitingQueue.includes test is missing.
handleReadyNoDedup(s, c, t) ==
  IF s.partnerId[c] # Undefined
  THEN send(s, c, StatusMsg("Already chatting. Leave to find someone new."))
  ELSE readyLoop([s EXCEPT !.wantsChat[c] = TRUE], c, t)

\* Mutant of handleReady: the test for an existing partner is dropped.
handleReadyNoPartnerCheck(s, c, t) ==
  IF indexOf(s.waitingQueue, c) # 0
  THEN send(s, c, StatusMsg("Waiting for the next available partner..."))
  ELSE readyLoop([s EXCEPT !.wantsChat[c] = TRUE], c, t)

handleReady(s, c, t) ==
  IF s.partnerId[c] # Undefined
  THEN send(s, c, StatusMsg("Already chatting. Leave to find someone new."))
  ELSE IF indexOf(s.waitingQueue, c) # 0
  THEN send(s, c, StatusMsg("Waiting for the next available partner..."))
  ELSE readyLoop([s EXCEPT !.wantsChat[c] = TRUE], c, t)

\* Mutant of handleSignal: the test for a missing partnerId is dropped, so
\* the lookup of `undefined` fails and the client is made to leave.
handleSignalNoGuard(s, c, payload, t) ==
  IF s.partnerId[c] \notin s.clients
  THEN handleLeave(s, c, t)
  ELSE send(s, s.partnerId[c], SignalMsg(payload))

handleSignal(s, c, payload, t) ==
  IF s.partnerId[c] = Undefined
  THEN send(s, c, StatusMsg("Waiting for a partner before sending media."))
  ELSE IF s.partnerId[c] \notin s.clients
  THEN handleLeave(s, c, t)
  ELSE send(s, s.partnerId[c], SignalMsg(payload))

handleMessage(s, c, raw, t) ==
  LET message == JSONParse(raw) IN
  IF ~message.ok THEN send(s, c, ErrorMsg("Invalid JSON payload"))
  ELSE IF message.falsy THEN s
  ELSE IF message.type = "ready" THEN handleReady(s, c, t)
  ELSE IF message.type = "signal" THEN handleSignal(s, c, message.payload, t)
  ELSE IF message.type = "leave" THEN handleLeave(s, c, t)
  ELSE send(s, c, ErrorMsg("Unknown message type"))

cleanupClient(s, c, t) ==
  IF c \notin s.clients THEN s
  ELSE LET s1 == handleLeave(s, c, t) IN [s1 EXCEPT !.clients = @ \ {c}]

\* socket.terminate(): the socket is destroyed, its close event comes later.
terminate(s, c) ==
  IF s.readyState[c] = CLOSED THEN s ELSE [s EXCEPT !.readyState[c] = CLOSING]

\* socket.ping() that does not throw: a ping frame goes out on an open socket.
PingFrame == [type |-> "ping", message |-> "", partnerId |-> Undefined, role |-> "", payload |-> NoPayload]
ping(s, c) ==
  IF s.readyState[c] = OPEN
  THEN [s EXCEPT !.out = Append(@, [to |-> c, msg |-> PingFrame])]
  ELSE s

\* A heartbeat tick that reaps an unresponsive client but forgets to drop it
\* from the registry.
heartbeatOneNoCleanup(s, c, pingThrows, t) ==
  IF ~s.isAlive[c]
  THEN terminate(s, c)
  ELSE LET s1 == [s EXCEPT !.isAlive[c] = FALSE] IN
       IF c \in pingThrows THEN cleanupClient(s1, c, t) ELSE ping(s1, c)

\* A heartbeat tick that reaps every client it visits, responsive or not.
heartbeatOneReapsAll(s, c, pingThrows, t) ==
  cleanupClient(terminate(s, c), c, t)

\* One iteration of the heartbeat loop; pingThrows is the set of clients whose
\* socket.ping() throws in this tick.
heartbeatOne(s, c, pingThrows, t) ==
  IF ~s.isAlive[c]
  THEN cleanupClient(terminate(s, c), c, t)
  ELSE LET s1 == [s EXCEPT !.isAlive[c] = FALSE] IN
       IF c \in pingThrows THEN cleanupClient(s1, c, t) ELSE ping(s1, c)

\* The heartbeat loop over the map's entries in insertion order (ids are
\* handed out in increasing order, so this is increasing id order).
RECURSIVE heartbeatFrom(_, _, _, _)
heartbeatFrom(s, c, pingThrows, t) ==
  IF c > MaxClients THEN s
  ELSE IF c \in s.clients
  THEN heartbeatFrom(heartbeatOne(s, c, pingThrows, t), c + 1, pingThrows, t)
  ELSE heartbeatFrom(s, c + 1, pingThrows, t)

\* -------------------------------------------------------------- handlers
\* wss.on('connection'): nanoid() yields an id never used before; ids are
\* numbered in the order they are handed out.
onConnection(s) ==
  LET c == s.stats.totalVisitors + 1
      s0 == [s EXCEPT !.readyState[c] = OPEN, !.wantsChat[c] = FALSE, !.isAlive[c] = TRUE,
                      !.partnerId[c] = Undefined, !.pairedAt[c] = Undefined]
      s1 == [s0 EXCEPT !.clients = @ \cup {c}, !.stats.totalVisitors = @ + 1]
  IN send(s1, c, StatusMsg("Connected to signaling server. Click \"Start\" to find someone."))

\* socket.on('pong')
onPong(s, c) == [s EXCEPT !.isAlive[c] = TRUE]

\* socket.on('message')
onMessage(s, c, raw, t) == handleMessage(s, c, raw, t)

\* socket.on('close'): readyState is CLOSED when the event is emitted.
onClose(s, c, t) == cleanupClient([s EXCEPT !.readyState[c] = CLOSED], c, t)

\* socket.on('error'): the socket is closing when the event is emitted and
\* its close event follows.
onError(s, c, t) == cleanupClient([s EXCEPT !.readyState[c] = CLOSING], c, t)

\* The setInterval callback.
heartbeat(s, pingThrows, t) == heartbeatFrom(s, 1, pingThrows, t)

\* ------------------------------------------------------------------ init
Init ==
  /\ clients = {}
  /\ partnerId = [c \in Ids |-> Undefined]
  /\ wantsChat = [c \in Ids |-> FALSE]
  /\ isAlive = [c \in Ids |-> FALSE]
  /\ pairedAt = [c \in Ids |-> Undefined]
  /\ readyState = [c \in Ids |-> NoSocket]
  /\ waitingQueue = <<>>
  /\ stats = [totalVisitors |-> 0, activeConversations |-> 0, conversationHistory |-> <<>>]
  /\ now = StartMs
  /\ pairsFormed = 0

\* --------------------------------------------------------------- actions
Connection ==
  /\ stats.totalVisitors < MaxClients
  /\ Commit(onConnection(Cur))
  /\ UNCHANGED now

Pong(c) ==
  /\ readyState[c] = OPEN
  /\ Commit(onPong(Cur, c))
  /\ UNCHANGED now

\* A message arrives on an open socket.
Message(c, raw) ==
  /\ readyState[c] = OPEN
  /\ LET s == onMessage(Cur, c, raw, now) IN
       /\ s.pairsFormed <= MaxPairs
       /\ Commit(s)
  /\ UNCHANGED now

\* The transport starts closing a socket (close frame received, connection
\* lost): readyState leaves OPEN before the close event is delivered.
SocketClosing(c) ==
  /\ readyState[c] = OPEN
  /\ Commit([Cur EXCEPT !.readyState[c] = CLOSING])
  /\ UNCHANGED now

SocketClose(c) ==
  /\ readyState[c] \in {OPEN, CLOSING}
  /\ Commit(onClose(Cur, c, now))
  /\ UNCHANGED now

SocketError(c) ==
  /\ readyState[c] \in {OPEN, CLOSING}
  /\ Commit(onError(Cur, c, now))
  /\ UNCHANGED now

Heartbeat ==
  \E pingThrows \in SUBSET clients :
    /\ Commit(heartbeat(Cur, pingThrows, now))
    /\ UNCHANGED now

\* Time passes.
AdvanceClock ==
  /\ now < StartMs + MaxTicks * StepMs
  /\ now' = now + StepMs
  /\ UNCHANGED <<clients, partnerId, wantsChat, isAlive, pairedAt, readyState,
                 waitingQueue, stats, pairsFormed>>

Next ==
  \/ Connection
  \/ \E c \in Ids : Pong(c)
  \/ \E c \in Ids, raw \in RawMessages : Message(c, raw)
  \/ \E c \in Ids : SocketClosing(c)
  \/ \E c \in Ids : SocketClose(c)
  \/ \E c \in Ids : SocketError(c)
  \/ Heartbeat
  \/ AdvanceClock

Spec == Init /\ [][Next]_vars

\* ---------------------------------------------------------- observations
\* What the spec calls the states of a connection.
Paired(s, c) == s.partnerId[c] # Undefined
Waiting(s, c) == indexOf(s.waitingQueue, c) # 0
Idle(s, c) == ~Paired(s, c) /\ ~Waiting(s, c)

\* Registry, queue, partner links and counters of a state.
Shared(s) == <<s.clients, s.waitingQueue, s.partnerId, s.pairedAt, s.stats, s.pairsFormed>>

\* The messages of type ty written to c's socket by a handler.
Sent(s, c, ty) == { i \in 1..Len(s.out) : s.out[i].to = c /\ s.out[i].msg.type = ty }
\* The messages of type ty written to anybody.
SentAny(s, ty) == { i \in 1..Len(s.out) : s.out[i].msg.type = ty }

ReadyRaw == [text |-> "object", type |-> "ready", payload |-> NoPayload]
LeaveRaw == [text |-> "object", type |-> "leave", payload |-> NoPayload]
SignalRaw(p) == [text |-> "object", type |-> "signal", payload |-> p]

\* a and b are each other's partner.
Mutual(a, b) == a # b /\ partnerId[a] = b /\ partnerId[b] = a

\* ---------------------------------------------------------------- claims
\* C1: pairing symmetry -- in every reachable state, if a registered
\* connection a has partnerId = b and b is registered, then b has
\* partnerId = a.
C1_PairingSymmetry ==
  \A a \in clients : \A b \in clients :
    partnerId[a] = b => partnerId[b] = a

\* q2 keeps the entries of q it still holds in their order, and holds at most
\* one entry that q did not hold, c, at its tail.
OrderKept(q, q2, c) ==
  /\ \A i, j \in 1..Len(q2) :
       (i < j /\ indexOf(q, q2[i]) # 0 /\ indexOf(q, q2[j]) # 0)
         => indexOf(q, q2[i]) < indexOf(q, q2[j])
  /\ \A i \in 1..Len(q2) : indexOf(q, q2[i]) = 0 => (i = Len(q2) /\ q2[i] = c)

\* C2: FIFO fairness -- the queue holds the waiting connections in the order
\* of their ready requests (a ready appends at the tail, nothing reorders the
\* rest), and whenever a ready forms a match the partner is the first entry
\* of the queue that is registered with an open socket.
C2_FifoFairness ==
  /\ \A c \in Ids : readyState[c] \in {OPEN, CLOSING} =>
       /\ OrderKept(waitingQueue, onClose(Cur, c, now).waitingQueue, Undefined)
       /\ OrderKept(waitingQueue, onError(Cur, c, now).waitingQueue, Undefined)
  /\ \A pingThrows \in SUBSET clients :
       OrderKept(waitingQueue, heartbeat(Cur, pingThrows, now).waitingQueue, Undefined)
  /\ \A c \in Ids : readyState[c] = OPEN =>
       /\ \A raw \in RawMessages :
            OrderKept(waitingQueue, onMessage(Cur, c, raw, now).waitingQueue, c)
       /\ LET r == onMessage(Cur, c, ReadyRaw, now)
              p == r.partnerId[c]
              k == indexOf(waitingQueue, p)
          IN r.pairsFormed > pairsFormed =>
               /\ k # 0
               /\ validPartner(Cur, p)
               /\ \A i \in 1..(k - 1) : ~validPartner(Cur, waitingQueue[i])
               /\ r.partnerId[p] = c

\* C2 witness: a connection is waiting with an open socket and a ready from
\* another connection would be matched with it.
C2_Witness ==
  \E c \in clients : \E p \in clients :
    /\ c # p /\ readyState[c] = OPEN /\ Waiting(Cur, p) /\ validPartner(Cur, p)
    /\ onMessage(Cur, c, ReadyRaw, now).partnerId[c] = p

\* b after a's departure produced state r: unlinked, still registered, told
\* so (when its socket is open), and a ready from it is accepted next.
TornDown(r, b) ==
  /\ r.partnerId[b] = Undefined
  /\ r.pairedAt[b] = Undefined
  /\ b \in r.clients
  /\ readyState[b] = OPEN =>
       /\ Cardinality(Sent(r, b, "partner_left")) = 1
       /\ LET r2 == onMessage([r EXCEPT !.out = <<>>], b, ReadyRaw, now)
          IN Paired(r2, b) \/ Waiting(r2, b)

\* The ways connection a can leave: leave message, close, error, and being
\* reaped by a heartbeat tick that only probes the others.
Departures(a) ==
  {onClose(Cur, a, now), onError(Cur, a, now)}
    \cup (IF readyState[a] = OPEN THEN {onMessage(Cur, a, LeaveRaw, now)} ELSE {})
    \cup (IF a \in clients /\ ~isAlive[a] /\ \A x \in clients \ {a} : isAlive[x]
          THEN {heartbeat(Cur, {}, now)} ELSE {})

\* C3: bilateral teardown -- when a, paired with registered b, leaves by any
\* path, in the same step b is unlinked, is sent partner_left, stays
\* registered, and a ready from b as the next event is accepted.
C3_BilateralTeardown ==
  \A a \in Ids : \A b \in clients :
    (Mutual(a, b) /\ readyState[a] \in {OPEN, CLOSING})
      => \A r \in Departures(a) : TornDown(r, b)

\* C4: idempotent leave -- a leave from a connection that is already Idle
\* writes nothing to any socket and leaves registry, queue, partner links
\* and counters as they were.
C4_IdempotentLeave ==
  \A c \in Ids : (readyState[c] = OPEN /\ Idle(Cur, c)) =>
    LET r == onMessage(Cur, c, LeaveRaw, now)
    IN r.out = <<>> /\ Shared(r) = Shared(Cur)

\* C4 witness: a registered connection is Idle again after a pairing of its
\* own was dissolved by a leave, so a further leave from it is a second one.
C4_Witness ==
  \E c \in clients :
    /\ readyState[c] = OPEN /\ Idle(Cur, c)
    /\ Len(stats.conversationHistory) > 0
    /\ onMessage(Cur, c, LeaveRaw, now).stats = stats

\* C5: queue de-duplication -- no id is twice in the queue, and a ready from
\* a queued connection leaves the queue and every partner link unchanged.
C5_QueueDedup ==
  /\ \A i, j \in 1..Len(waitingQueue) : waitingQueue[i] = waitingQueue[j] => i = j
  /\ \A c \in Ids : (readyState[c] = OPEN /\ Waiting(Cur, c)) =>
       LET r == onMessage(Cur, c, ReadyRaw, now)
       IN /\ r.waitingQueue = waitingQueue
          /\ r.partnerId = partnerId
          /\ r.pairsFormed = pairsFormed

\* C5 witness: a connection with an open socket is queued, so its next ready
\* is a duplicate one.
C5_Witness ==
  \E c \in clients : readyState[c] = OPEN /\ Waiting(Cur, c) /\ wantsChat[c]

\* C6: no self-pairing -- no connection has its own id as partnerId, and a
\* ready never makes it so.
C6_NoSelfPairing ==
  /\ \A c \in Ids : partnerId[c] # c
  /\ \A c \in Ids : readyState[c] = OPEN =>
       onMessage(Cur, c, ReadyRaw, now).partnerId[c] # c

\* C6 witness: a connection that can send ready is the only queue entry.
C6_Witness ==
  \E c \in clients : readyState[c] = OPEN /\ waitingQueue = <<c>>

\* The scenario of C7: a is waiting, registered with an open socket, and b,
\* registered and Idle, sends ready.
C7_Scenario(a, b) ==
  /\ a # b /\ a \in clients /\ b \in clients
  /\ waitingQueue = <<a>> /\ ~Paired(Cur, a) /\ readyState[a] = OPEN
  /\ Idle(Cur, b) /\ readyState[b] = OPEN

\* C7 as stated: the waiting a is told role offerer, the requester b role
\* answerer.
C7_AsStated ==
  \A a, b \in Ids : C7_Scenario(a, b) =>
    LET r == onMessage(Cur, b, ReadyRaw, now)
    IN /\ \E i \in Sent(r, a, "match") : r.out[i].msg = MatchMsg(b, "offerer")
       /\ \E i \in Sent(r, b, "match") : r.out[i].msg = MatchMsg(a, "answerer")

\* C7 amended: in that scenario the waiting a receives match with
\* partnerId = b and role answerer, and the requester b receives match with
\* partnerId = a and role offerer.
C7_ScenarioRoles ==
  \A a, b \in Ids : C7_Scenario(a, b) =>
    LET r == onMessage(Cur, b, ReadyRaw, now)
    IN /\ \E i \in Sent(r, a, "match") : r.out[i].msg = MatchMsg(b, "answerer")
       /\ \E i \in Sent(r, b, "match") : r.out[i].msg = MatchMsg(a, "offerer")
       /\ r.partnerId[a] = b /\ r.partnerId[b] = a

\* C7 witness: the scenario's state -- a waiting, b connected and Idle.
C7_Witness == \E a, b \in Ids : C7_Scenario(a, b)

\* C8: role assignment -- when a ready from c pairs it with the dequeued p,
\* c receives exactly one match, naming p with role offerer, p receives
\* exactly one match, naming c with role answerer, and nobody else a match.
C8_RoleAssignment ==
  \A c \in Ids : readyState[c] = OPEN =>
    LET r == onMessage(Cur, c, ReadyRaw, now)
        p == r.partnerId[c]
    IN r.pairsFormed > pairsFormed =>
         /\ p # c
         /\ Cardinality(Sent(r, c, "match")) = 1
         /\ Cardinality(Sent(r, p, "match")) = 1
         /\ Cardinality(SentAny(r, "match")) = 2
         /\ \A i \in Sent(r, c, "match") : r.out[i].msg = MatchMsg(p, "offerer")
         /\ \A i \in Sent(r, p, "match") : r.out[i].msg = MatchMsg(c, "answerer")

\* C8 witness: a pairing exists whose two sides were linked by one ready,
\* and a further ready would form another pair.
C8_Witness ==
  \E c \in Ids :
    /\ readyState[c] = OPEN
    /\ onMessage(Cur, c, ReadyRaw, now).pairsFormed > pairsFormed
    /\ pairsFormed > 0

\* C9: relay only between partners -- a signal from a Paired connection c is
\* written, with the payload as it came in, to the socket of its partner
\* (when that socket is open) and to no other, changes no registry, queue,
\* link or counter, and its recipient has c as its partner.
C9_RelayBetweenPartners ==
  \A c \in Ids : (readyState[c] = OPEN /\ Paired(Cur, c)) =>
    \A p \in WirePayloads :
      LET r == onMessage(Cur, c, SignalRaw(p), now)
          q == partnerId[c]
      IN /\ Shared(r) = Shared(Cur)
         /\ \A i \in 1..Len(r.out) :
              r.out[i].to = q /\ r.out[i].msg.type = "signal" /\ r.out[i].msg.payload = p
         /\ readyState[q] = OPEN => Len(r.out) = 1
         /\ \A i \in 1..Len(r.out) : partnerId[r.out[i].to] = c

\* C10: signal without a partner -- a signal from a connection without a
\* partner writes exactly one message, a status to the sender, and changes
\* no registry, queue, link or counter.
C10_SignalWithoutPartner ==
  \A c \in Ids : (readyState[c] = OPEN /\ ~Paired(Cur, c)) =>
    \A p \in WirePayloads :
      LET r == onMessage(Cur, c, SignalRaw(p), now)
      IN /\ Len(r.out) = 1
         /\ r.out[1].to = c
         /\ r.out[1].msg.type = "status"
         /\ Shared(r) = Shared(Cur)
         /\ r.wantsChat = wantsChat

\* C10 witness: a queued connection and an Idle one can both send a signal.
C10_Witness ==
  \E c, d \in clients :
    /\ readyState[c] = OPEN /\ Waiting(Cur, c)
    /\ readyState[d] = OPEN /\ Idle(Cur, d)

C12_TransportFailure ==
  \A x \in Ids : readyState[x] \in {OPEN, CLOSING} =>
    \A r \in {onClose(Cur, x, now), onError(Cur, x, now)} :
      /\ x \notin r.clients
      /\ ~Waiting(r, x)
      /\ \A b \in r.clients : r.partnerId[b] # x
      /\ r.out = handleLeave(Cur, x, now).out

\* The removal triggers of a connection: explicit leave, socket error, socket
\* close, and the two ways a heartbeat tick removes it (the tick only probes
\* the other clients).
Triggers == {"leave", "error", "close", "reap", "pingfail"}

TriggerEnabled(s, x, k) ==
  CASE k = "leave" -> s.readyState[x] = OPEN
    [] k \in {"error", "close"} -> s.readyState[x] \in {OPEN, CLOSING}
    [] k = "reap" -> x \in s.clients /\ ~s.isAlive[x]
                       /\ \A y \in s.clients \ {x} : s.isAlive[y]
    [] k = "pingfail" -> x \in s.clients /\ \A y \in s.clients : s.isAlive[y]

Trigger(s, x, k) ==
  CASE k = "leave" -> onMessage(s, x, LeaveRaw, now)
    [] k = "error" -> onError(s, x, now)
    [] k = "close" -> onClose(s, x, now)
    [] k = "reap" -> heartbeat(s, {}, now)
    [] k = "pingfail" -> heartbeat(s, {x}, now)

\* The protocol messages written by a handler: everything but ping frames.
IsMessage(e) == e.msg.type # "ping"
Messages(s) == SelectSeq(s.out, IsMessage)

\* Shared state apart from x's registry entry.
SharedBut(s, x) ==
  <<s.clients \ {x}, s.waitingQueue, s.partnerId, s.pairedAt, s.stats, s.pairsFormed>>

\* C13: idempotent removal under racing events -- when two removal triggers
\* fire for a registered, paired connection x in any order, the partner is
\* sent exactly one partner_left, the active-pairing counter goes down by
\* one, one duration record is appended, and the second trigger writes no
\* message and changes nothing but (after a leave) x's registry entry.
C13_IdempotentRemoval ==
  \A x \in clients : Paired(Cur, x) =>
    \A k1, k2 \in Triggers : TriggerEnabled(Cur, x, k1) =>
      LET r1 == Trigger(Cur, x, k1)
          p == partnerId[x]
      IN TriggerEnabled(r1, x, k2) =>
           LET r2 == Trigger(r1, x, k2)
           IN /\ readyState[p] = OPEN
                   => Cardinality(Sent(r2, p, "partner_left")) = 1
              /\ r2.stats.activeConversations = stats.activeConversations - 1
              /\ Len(r2.stats.conversationHistory) = Len(stats.conversationHistory) + 1
              /\ Messages(r2) = Messages(r1)
              /\ SharedBut(r2, x) = SharedBut(r1, x)
              /\ x \notin r2.clients \/ k2 = "leave"

\* Inbound texts that are not a well-formed ready, signal or leave:
\* unparseable text, the JSON value null, an object with an unknown type and
\* an object with no type.
MalformedRaw ==
  { [text |-> x, type |-> "", payload |-> NoPayload] : x \in {"garbage", "null", "object"} }
    \cup { [text |-> "object", type |-> "bogus", payload |-> NoPayload] }

\* C14: malformed input -- every inbound message that is not a well-formed
\* ready, signal or leave makes the server write one error message to the
\* sender, nothing to anybody else, and changes no shared state.
C14_MalformedInput ==
  \A c \in Ids : readyState[c] = OPEN =>
    \A raw \in MalformedRaw :
      LET r == onMessage(Cur, c, raw, now)
      IN /\ Len(r.out) = 1
         /\ r.out[1].to = c
         /\ r.out[1].msg.type = "error"
         /\ Shared(r) = Shared(Cur)
         /\ r.wantsChat = wantsChat

\* C15: ready while paired is rejected -- a ready from a connection that has
\* a partner writes one status message to that connection and nothing to
\* anybody else (its partner included), and leaves its pairing, the queue
\* and all counters unchanged.
C15_ReadyWhilePaired ==
  \A c \in Ids : (readyState[c] = OPEN /\ Paired(Cur, c)) =>
    LET r == onMessage(Cur, c, ReadyRaw, now)
    IN /\ Len(r.out) = 1
       /\ r.out[1].to = c
       /\ r.out[1].msg.type = "status"
       /\ \A i \in 1..Len(r.out) : r.out[i].to # partnerId[c]
       /\ Shared(r) = Shared(Cur)
       /\ r.wantsChat = wantsChat

C15_Witness ==
  \E c, d \in clients :
    /\ Mutual(c, d) /\ readyState[c] = OPEN /\ readyState[d] = OPEN
    /\ waitingQueue # <<>>

\* C16: partner references are never dangling -- in every reachable state,
\* every partnerId held by a registered connection is the id of a connection
\* that is in the registry.
C16_NoDanglingPartner ==
  \A c \in clients : Paired(Cur, c) => partnerId[c] \in clients

\* C17 (as stated): queue membership mirrors the Waiting state -- a
\* registered connection is in the waiting queue iff wantsChat is true and
\* it has no partner; no queued connection has a partner.
C17_AsStated ==
  /\ \A c \in clients : Waiting(Cur, c) <=> (wantsChat[c] /\ ~Paired(Cur, c))
  /\ \A c \in Ids : Waiting(Cur, c) => ~Paired(Cur, c)

\* C17: queue membership mirrors the Waiting state -- a registered
\* connection whose socket is open is in the waiting queue iff wantsChat is
\* true and it has no partner; a registered connection in the queue has
\* wantsChat true; no queued connection has a partner.
C17_QueueMirrorsWaiting ==
  /\ \A c \in clients : readyState[c] = OPEN =>
       (Waiting(Cur, c) <=> (wantsChat[c] /\ ~Paired(Cur, c)))
  /\ \A c \in clients : Waiting(Cur, c) => wantsChat[c]
  /\ \A c \in Ids : Waiting(Cur, c) => ~Paired(Cur, c)

C17_Witness ==
  \E c, d \in clients :
    /\ readyState[c] = OPEN /\ Waiting(Cur, c) /\ wantsChat[c]
    /\ readyState[d] # OPEN /\ Idle(Cur, d) /\ wantsChat[d]

\* Some queue entry of s is a registered connection with an open socket.
Available(s) == \E i \in 1..Len(s.waitingQueue) : validPartner(s, s.waitingQueue[i])

\* C18: ready outcome -- a ready from an Idle connection c pairs c at once
\* when the queue holds a registered connection with an open socket, and
\* otherwise appends c to the queue and tells it that it is waiting; c is
\* never both queued and paired and never left Idle.
C18_ReadyOutcome ==
  \A c \in Ids : (readyState[c] = OPEN /\ Idle(Cur, c)) =>
    LET r == onMessage(Cur, c, ReadyRaw, now)
    IN /\ Available(Cur) =>
            /\ Paired(r, c) /\ ~Waiting(r, c)
            /\ Cardinality(Sent(r, c, "match")) = 1
       /\ ~Available(Cur) =>
            /\ Waiting(r, c) /\ ~Paired(r, c)
            /\ r.waitingQueue[Len(r.waitingQueue)] = c
            /\ r.out = <<[to |-> c, msg |-> StatusMsg("Waiting for someone to join...")]>>
       /\ ~(Paired(r, c) /\ Waiting(r, c))
       /\ ~Idle(r, c)

C18_Witness ==
  \E c \in clients :
    /\ readyState[c] = OPEN /\ Idle(Cur, c) /\ Available(Cur)
    /\ Paired(onMessage(Cur, c, ReadyRaw, now), c)

\* C19 (as stated): heartbeat never reaps a responsive connection -- a tick
\* removes a registered connection only if it was probed at an earlier tick
\* and has not acknowledged since (isAlive is false).
C19_AsStated ==
  \A c \in clients : \A pingThrows \in SUBSET clients :
    c \notin heartbeat(Cur, pingThrows, now).clients => ~isAlive[c]

\* A heartbeat tick followed by a pong from c when c is still connected.
TickThenPong(s, c, pingThrows) ==
  LET r == heartbeat(s, pingThrows, now)
  IN IF r.readyState[c] = OPEN THEN onPong([r EXCEPT !.out = <<>>], c) ELSE r

\* C19: heartbeat never reaps a responsive connection -- a tick removes a
\* registered connection only if it has not acknowledged an earlier probe or
\* its ping throws in this tick; a connection that acknowledged its last
\* probe, or that sees its first tick after connecting, and whose ping does
\* not throw stays registered, keeps its socket, has isAlive set to false
\* and is sent a ping; nothing but a heartbeat tick sets isAlive to false.
C19_NoReapOfResponsive ==
  /\ \A c \in clients : \A pingThrows \in SUBSET clients :
       LET r == heartbeat(Cur, pingThrows, now)
       IN /\ c \notin r.clients <=> (~isAlive[c] \/ c \in pingThrows)
          /\ (isAlive[c] /\ c \notin pingThrows) =>
               /\ ~r.isAlive[c]
               /\ r.readyState[c] = readyState[c]
               /\ readyState[c] = OPEN =>
                    Cardinality(Sent(r, c, "ping")) = 1
  /\ \A c \in clients : readyState[c] = OPEN =>
       \A pingThrows \in SUBSET (clients \ {c}) :
         LET r == TickThenPong(Cur, c, pingThrows)
         IN c \in r.clients =>
              c \in heartbeat(r, {}, now).clients
  /\ stats.totalVisitors < MaxClients =>
       LET r == onConnection(Cur)
           c == stats.totalVisitors + 1
       IN /\ r.isAlive[c]
          /\ c \in heartbeat(r, {}, now).clients
  /\ \A d \in Ids :
       /\ readyState[d] = OPEN =>
            \A raw \in RawMessages : onMessage(Cur, d, raw, now).isAlive = isAlive
       /\ readyState[d] \in {OPEN, CLOSING} =>
            /\ onClose(Cur, d, now).isAlive = isAlive
            /\ onError(Cur, d, now).isAlive = isAlive

C19_Witness ==
  \E c, d \in clients :
    /\ isAlive[c] /\ readyState[c] = OPEN
    /\ ~isAlive[d]
    /\ stats.totalVisitors < MaxClients

\* C20: stale queue entries are skipped -- a ready from c never pairs c with
\* a connection that is absent from the registry, whose socket is not open
\* or that already has a partner; the entries popped before the chosen
\* partner are gone from the queue; stale entries cause no error message and
\* an Idle c ends up paired or alone in the queue.
C20_StaleEntriesSkipped ==
  \A c \in Ids : readyState[c] = OPEN =>
    LET r == onMessage(Cur, c, ReadyRaw, now)
        p == r.partnerId[c]
    IN /\ (~Paired(Cur, c) /\ Paired(r, c)) =>
            /\ p \in clients /\ readyState[p] = OPEN /\ ~Paired(Cur, p)
            /\ \E k \in 1..Len(waitingQueue) :
                 /\ waitingQueue[k] = p
                 /\ \A i \in 1..(k - 1) : ~validPartner(Cur, waitingQueue[i])
                 /\ r.waitingQueue = SubSeq(waitingQueue, k + 1, Len(waitingQueue))
       /\ Idle(Cur, c) => (Paired(r, c) \/ r.waitingQueue = <<c>>)
       /\ SentAny(r, "error") = {}

C20_Witness ==
  \E c \in clients :
    /\ readyState[c] = OPEN /\ Idle(Cur, c)
    /\ waitingQueue # <<>> /\ ~Available(Cur)
    /\ onMessage(Cur, c, ReadyRaw, now).waitingQueue = <<c>>

\* The queue q without the entries equal to x, order kept.
RECURSIVE Without(_, _)
Without(q, x) ==
  IF q = <<>> THEN <<>>
  ELSE IF Head(q) = x THEN Without(Tail(q), x)
  ELSE <<Head(q)>> \o Without(Tail(q), x)

\* The ways a connection x can leave or disconnect: leave message, close
\* event, error event.
LeaveOrDisconnect(x) ==
  (IF readyState[x] = OPEN THEN {onMessage(Cur, x, LeaveRaw, now)} ELSE {})
    \cup (IF readyState[x] \in {OPEN, CLOSING}
          THEN {onClose(Cur, x, now), onError(Cur, x, now)} ELSE {})

\* C21: leaving while waiting is a pure dequeue -- a leave or disconnect of
\* a connection x that is in the queue removes x from the queue and makes it
\* Idle, writes no message to any other connection, changes no other
\* connection's fields or registration, keeps the other queue entries in
\* their order, and leaves the active-pairing counter and the duration log
\* as they were.
C21_LeaveWhileWaiting ==
  \A x \in Ids : Waiting(Cur, x) =>
    \A r \in LeaveOrDisconnect(x) :
      /\ Idle(r, x)
      /\ r.waitingQueue = Without(waitingQueue, x)
      /\ \A i \in 1..Len(r.out) : r.out[i].to = x
      /\ \A y \in Ids \ {x} :
           /\ r.partnerId[y] = partnerId[y] /\ r.pairedAt[y] = pairedAt[y]
           /\ r.wantsChat[y] = wantsChat[y] /\ r.isAlive[y] = isAlive[y]
           /\ r.readyState[y] = readyState[y]
           /\ y \in r.clients <=> y \in clients
      /\ r.stats.activeConversations = stats.activeConversations
      /\ r.stats.conversationHistory = stats.conversationHistory

\* C22: pairedAt tracks the pairing -- in every reachable state a connection
\* has pairedAt set iff it has partnerId set, and a connection and its
\* mutually linked partner hold the same pairedAt value.
C22_PairedAtTracksPairing ==
  \A c \in Ids :
    /\ pairedAt[c] # Undefined <=> Paired(Cur, c)
    /\ \A d \in Ids : Mutual(c, d) => pairedAt[d] = pairedAt[c]

C22_Witness ==
  \E c, d \in Ids :
    /\ Mutual(c, d) /\ pairedAt[c] = StartMs + StepMs
    /\ Len(stats.conversationHistory) > 0
    /\ \E e \in Ids : pairedAt[e] = Undefined /\ readyState[e] = OPEN

\* C23: dangling partner self-heals -- when a registered connection x whose
\* partnerId is not in the registry sends a signal, x becomes Idle with
\* partnerId and pairedAt cleared and stays registered, x is sent
\* partner_left, the payload is delivered to nobody, and the active-pairing
\* counter goes down by one.
C23_DanglingSelfHeals ==
  \A x \in clients :
    (readyState[x] = OPEN /\ Paired(Cur, x) /\ partnerId[x] \notin clients) =>
      \A p \in WirePayloads :
        LET r == onMessage(Cur, x, SignalRaw(p), now)
        IN /\ Idle(r, x)
           /\ r.pairedAt[x] = Undefined
           /\ x \in r.clients
           /\ SentAny(r, "signal") = {}
           /\ Cardinality(Sent(r, x, "partner_left")) = 1
           /\ r.stats.activeConversations = stats.activeConversations - 1

\* The existing pairings: unordered pairs of mutually linked connections.
Pairings == { pr \in SUBSET Ids : \E a, b \in Ids : pr = {a, b} /\ Mutual(a, b) }

\* C24: counter consistency -- in every reachable state activeConversations
\* is the number of existing pairings, and the number of pairings ever
\* formed is activeConversations plus the length of conversationHistory;
\* whenever handleLeave would decrement the counter it is at least 1.
C24_CounterConsistency ==
  /\ stats.activeConversations = Cardinality(Pairings)
  /\ pairsFormed = stats.activeConversations + Len(stats.conversationHistory)
  /\ \A x \in Ids :
       (Paired(Cur, x) /\ partnerId[x] \in clients
          /\ pairedAt[x] # Undefined /\ pairedAt[partnerId[x]] # Undefined)
         => stats.activeConversations >= 1

\* C25: queue length bound -- in every reachable state the waiting queue
\* holds at most one id, and a ready that is not rejected either pairs the
\* requester and leaves the queue empty, or leaves the requester as the only
\* entry.
C25_QueueLengthBound ==
  /\ Len(waitingQueue) <= 1
  /\ \A c \in Ids : (readyState[c] = OPEN /\ Idle(Cur, c)) =>
       LET r == onMessage(Cur, c, ReadyRaw, now)
       IN \/ Paired(r, c) /\ r.waitingQueue = <<>>
          \/ ~Paired(r, c) /\ r.waitingQueue = <<c>>

C25_Witness ==
  /\ Len(waitingQueue) = 1
  /\ \E c, d \in Ids :
       /\ c # d /\ readyState[c] = OPEN /\ Idle(Cur, c)
       /\ readyState[d] = OPEN /\ Idle(Cur, d)

\* c was connected once and has been removed from the registry.
Removed(c) == c <= stats.totalVisitors /\ c \notin clients

\* The results of the events that can still come from c's socket.
EventsFrom(c) ==
  (IF readyState[c] = OPEN
   THEN { onMessage(Cur, c, raw, now) : raw \in RawMessages } \cup {onPong(Cur, c)}
   ELSE {})
    \cup (IF readyState[c] \in {OPEN, CLOSING}
          THEN {onClose(Cur, c, now), onError(Cur, c, now)} ELSE {})

\* C26: removed connections stay out -- a connection that has been removed
\* from the registry is not in the waiting queue and is nobody's partner,
\* and no later event from its socket changes shared state.
C26_RemovedStayOut ==
  \A c \in Ids : Removed(c) =>
    /\ ~Waiting(Cur, c)
    /\ \A d \in Ids : partnerId[d] # c
    /\ \A r \in EventsFrom(c) : Shared(r) = Shared(Cur)

TypeOK ==
  /\ clients \subseteq Ids
  /\ \A c \in Ids : partnerId[c] \in Ids \cup {Undefined}
  /\ \A i \in 1..Len(waitingQueue) : waitingQueue[i] \in Ids

====
